---- MODULE Spec2Model ----
(***************************************************************************)
(* A model of src/lib/ai.ts: the request dispatcher callAI, the JSON        *)
(* extractor coerceToJSONObject and the schema normaliser                   *)
(* normalizeToSchema.                                                       *)
(*                                                                          *)
(* Text is a sequence of one-character strings.  A decoded JavaScript       *)
(* value is a pair <<tag, payload>>:                                        *)
(*   <<"undefined", 0>>  <<"null", 0>>  <<"bool", b>>  <<"num", n>>         *)
(*   <<"str", text>>     <<"arr", sequence of values>>                      *)
(*   <<"obj", function from field names (texts) to values>>                 *)
(***************************************************************************)
EXTENDS Integers, Sequences, FiniteSets, TLC

VARIABLES
    pc,          \* position inside the running function
    env,         \* process.env.GROQ_API_KEY
    signal,      \* the AbortSignal argument: "none", "armed" or "aborted"
    abortedAt,   \* the position of callAI at which the signal fired
    fetchCalls,  \* how many times fetch has been called
    response,    \* the Response fetch resolved with: [status, ok]
    data,        \* what was read from the response body
    outcome,     \* how callAI ended: [kind, text]
    input,       \* the argument of coerceToJSONObject / normalizeToSchema
    result,      \* what coerceToJSONObject / normalizeToSchema returned
    again        \* normalizeToSchema applied to its own result

vars == <<pc, env, signal, abortedAt, fetchCalls, response, data,
          outcome, input, result, again>>

---------------------------------------------------------------------------
(* Bounds of the model *)

\* longest enumerated input text of coerceToJSONObject
MaxLen == 4
\* most fields of an enumerated input object of normalizeToSchema
MaxFields == 2

---------------------------------------------------------------------------
(* JavaScript values *)

Undefined == <<"undefined", 0>>
Null      == <<"null", 0>>
Bool(b)   == <<"bool", b>>
Num(n)    == <<"num", n>>
Str(s)    == <<"str", s>>
Arr(s)    == <<"arr", s>>
Obj(f)    == <<"obj", f>>
EmptyObj  == Obj(<<>>)

Tag(v)     == v[1]
Payload(v) == v[2]

IsStr(v) == Tag(v) = "str"
IsArr(v) == Tag(v) = "arr"
IsObj(v) == Tag(v) = "obj"
IsNullish(v) == Tag(v) \in {"undefined", "null"}

\* v.key for a value v that is neither null nor undefined
Get(v, key) ==
    IF IsObj(v) /\ key \in DOMAIN Payload(v) THEN Payload(v)[key] ELSE Undefined

\* v?.key
OptGet(v, key) == IF IsNullish(v) THEN Undefined ELSE Get(v, key)

\* v?.[0]
OptFirst(v) ==
    IF IsNullish(v) THEN Undefined
    ELSE IF IsArr(v) /\ Len(Payload(v)) >= 1 THEN Payload(v)[1]
    ELSE IF IsStr(v) /\ Len(Payload(v)) >= 1 THEN Str(<<Payload(v)[1]>>)
    ELSE IF IsObj(v) /\ <<"0">> \in DOMAIN Payload(v) THEN Payload(v)[<<"0">>]
    ELSE Undefined

---------------------------------------------------------------------------
(* Text *)

WhiteSpace == {" ", "\n", "\t"}

RECURSIVE TrimStart(_)
TrimStart(s) ==
    IF s # <<>> /\ Head(s) \in WhiteSpace THEN TrimStart(Tail(s)) ELSE s

RECURSIVE TrimEnd(_)
TrimEnd(s) ==
    IF s # <<>> /\ s[Len(s)] \in WhiteSpace
    THEN TrimEnd(SubSeq(s, 1, Len(s) - 1)) ELSE s

\* String.prototype.trim
Trim(s) == TrimEnd(TrimStart(s))

Digit(d) == CASE d = 0 -> "0" [] d = 1 -> "1" [] d = 2 -> "2" [] d = 3 -> "3"
              [] d = 4 -> "4" [] d = 5 -> "5" [] d = 6 -> "6" [] d = 7 -> "7"
              [] d = 8 -> "8" [] d = 9 -> "9"

\* the decimal text of a natural number, as a template literal or String() gives it
RECURSIVE NatToText(_)
NatToText(n) ==
    IF n < 10 THEN <<Digit(n)>> ELSE NatToText(n \div 10) \o <<Digit(n % 10)>>

---------------------------------------------------------------------------
(* callAI *)

K_choices == <<"c", "h", "o", "i", "c", "e", "s">>
K_message == <<"m", "e", "s", "s", "a", "g", "e">>
K_content == <<"c", "o", "n", "t", "e", "n", "t">>

MissingKeyMessage == <<"M", "i", "s", "s", "i", "n", "g", " ", "G", "R", "O", "Q", "_", "A", "P", "I", "_", "K", "E", "Y">>
GroqErrorPrefix   == <<"G", "r", "o", "q", " ", "e", "r", "r", "o", "r", ":", " ">>
EmptyJSONText     == <<"{", "}">>

\* the value of process.env.GROQ_API_KEY: unset, set to "", or set to a key
EnvValues == {Undefined, Str(<<>>), Str(<<"k">>)}

\* a check for the empty key alone: apiKey === ""
KeyMissing_OnlyEmpty(k) == k = Str(<<>>)
\* !apiKey
KeyMissing(k) == IsNullish(k) \/ k = Str(<<>>)

\* fetch called without the signal
FetchSignal_Dropped(sig) == "none"
\* the signal member of the init object handed to fetch
FetchSignal(sig) == sig

\* response.ok
Ok(status) == status \in 200..299

\* the message without the body text
GroqErrorMessage_NoBody(status, body) ==
    GroqErrorPrefix \o NatToText(status) \o <<" ">>
\* `Groq error: ${response.status} ${(await response.text())}`
GroqErrorMessage(status, body) ==
    GroqErrorPrefix \o NatToText(status) \o <<" ">> \o body

NoOutcome      == [kind |-> "none", text |-> <<>>]
Returned(t)    == [kind |-> "value", text |-> t]
Thrown(k, msg) == [kind |-> k, text |-> msg]

\* data.choices?.[0]?.message?.content?.trim() ?? "{}"
Content(d) ==
    IF IsNullish(d) THEN Thrown("TypeError", <<>>)
    ELSE LET c == OptGet(OptFirst(Get(d, K_choices)), K_message)
             t == OptGet(c, K_content)
         IN  IF IsNullish(t) THEN Returned(EmptyJSONText)
             ELSE IF IsStr(t) THEN Returned(Trim(Payload(t)))
             ELSE Thrown("TypeError", <<>>)

Statuses  == {200, 204, 404, 500}
BodyTexts == {<<>>, <<"b", "a", "d">>}

Choice(c)      == Obj(K_message :> Obj(K_content :> c))
WithChoices(s) == Obj(K_choices :> Arr(s))
Contents == {Null, Str(<<>>), Str(<<" ">>), Str(<<"x">>), Str(<<" ", "x", "\n">>),
             Str(<<"{", "}">>), Num(1)}
\* the decoded bodies a success response is read as
Datas ==
    {Null, EmptyObj, Num(1), WithChoices(<<>>), WithChoices(<<Null>>),
     WithChoices(<<EmptyObj>>), WithChoices(<<Obj(K_message :> Null)>>),
     WithChoices(<<Obj(K_message :> EmptyObj)>>),
     WithChoices(<<Choice(Str(<<"x">>)), Choice(Str(<<"y">>))>>)}
    \cup {WithChoices(<<Choice(c)>>) : c \in Contents}

NoResponse == [status |-> 0, ok |-> FALSE]

InitCall ==
    /\ pc = "idle"
    /\ env \in EnvValues
    /\ signal \in {"none", "armed"}
    /\ abortedAt = "never"
    /\ fetchCalls = 0
    /\ response = NoResponse
    /\ data = Undefined
    /\ outcome = NoOutcome
    /\ input = Undefined
    /\ result = Undefined
    /\ again = Undefined

\* the caller's controller.abort(): the signal fires, before or during the call
Abort ==
    /\ signal = "armed"
    /\ pc # "done"
    /\ signal' = "aborted"
    /\ abortedAt' = pc
    /\ UNCHANGED <<pc, env, fetchCalls, response, data, outcome, input, result, again>>

\* callAI up to its first await: the credential check and the call of fetch
Call ==
    /\ pc = "idle"
    /\ IF KeyMissing(env)
       THEN /\ outcome' = Thrown("ConfigError", MissingKeyMessage)
            /\ pc' = "done"
            /\ UNCHANGED fetchCalls
       ELSE /\ fetchCalls' = fetchCalls + 1
            /\ pc' = "fetch"
            /\ UNCHANGED outcome
    /\ UNCHANGED <<env, signal, abortedAt, response, data, input, result, again>>

\* a failed request tried again, up to three requests
Reject_Retry(kind) ==
    /\ IF kind = "TransportError" /\ pc = "fetch" /\ fetchCalls < 3
       THEN /\ fetchCalls' = fetchCalls + 1
            /\ UNCHANGED <<pc, outcome>>
       ELSE /\ outcome' = Thrown(kind, <<>>)
            /\ pc' = "done"
            /\ UNCHANGED fetchCalls
    /\ UNCHANGED <<env, signal, abortedAt, response, data, input, result, again>>
\* an awaited promise rejects: the error propagates out of callAI unmodified
Reject(kind) ==
    /\ outcome' = Thrown(kind, <<>>)
    /\ pc' = "done"
    /\ UNCHANGED <<env, signal, abortedAt, fetchCalls, response, data, input, result, again>>

\* the fetch promise rejects: the signal has fired, or the transport failed
FetchRejects ==
    /\ pc = "fetch"
    /\ IF FetchSignal(signal) = "aborted"
       THEN Reject("AbortError") ELSE Reject("TransportError")

\* the fetch promise resolves with a Response; callAI checks response.ok and
\* starts reading the body with text() or json()
FetchResolves ==
    /\ pc = "fetch"
    /\ FetchSignal(signal) # "aborted"
    /\ \E status \in Statuses :
          /\ response' = [status |-> status, ok |-> Ok(status)]
          /\ pc' = IF ~Ok(status) THEN "text" ELSE "json"
    /\ UNCHANGED <<env, signal, abortedAt, fetchCalls, data, outcome, input, result, again>>

\* reading the body fails: the signal has fired, or the transport failed
BodyRejects ==
    /\ pc \in {"text", "json"}
    /\ IF FetchSignal(signal) = "aborted"
       THEN Reject("AbortError") ELSE Reject("TransportError")

\* response.json() rejects because the body is not JSON
JsonSyntaxError ==
    /\ pc = "json"
    /\ FetchSignal(signal) # "aborted"
    /\ Reject("SyntaxError")

\* response.text() resolves: callAI throws the provider error
TextResolves ==
    /\ pc = "text"
    /\ FetchSignal(signal) # "aborted"
    /\ \E body \in BodyTexts :
          /\ data' = Str(body)
          /\ outcome' = Thrown("ProviderError", GroqErrorMessage(response.status, body))
    /\ pc' = "done"
    /\ UNCHANGED <<env, signal, abortedAt, fetchCalls, response, input, result, again>>

\* response.json() resolves: callAI returns the content or throws a TypeError
JsonResolves ==
    /\ pc = "json"
    /\ FetchSignal(signal) # "aborted"
    /\ \E d \in Datas :
          /\ data' = d
          /\ outcome' = Content(d)
    /\ pc' = "done"
    /\ UNCHANGED <<env, signal, abortedAt, fetchCalls, response, input, result, again>>

Next ==
    \/ Abort
    \/ Call
    \/ FetchRejects
    \/ FetchResolves
    \/ BodyRejects
    \/ JsonSyntaxError
    \/ TextResolves
    \/ JsonResolves

Spec == InitCall /\ [][Next]_vars

---------------------------------------------------------------------------
(* Claims about callAI, checked under Spec *)

Done == pc = "done"

\* sub occurs in s
Contains(s, sub) ==
    \E i \in 0..(Len(s) - Len(sub)) : SubSeq(s, i + 1, i + Len(sub)) = sub

\* s ends with sub
EndsWith(s, sub) ==
    Len(sub) <= Len(s) /\ SubSeq(s, Len(s) - Len(sub) + 1, Len(s)) = sub

\* C1: when GROQ_API_KEY is absent, callAI fails with the configuration error
\* and fetch has not been called at any point of the call: the call goes from
\* its start straight to its end with the network-call counter at zero.
C1_MissingKeyFailsBeforeFetch ==
    env = Undefined =>
        /\ fetchCalls = 0
        /\ pc \in {"idle", "done"}
        /\ Done => outcome = Thrown("ConfigError", MissingKeyMessage)

C1_Witness ==
    Done /\ env = Undefined /\ outcome.kind = "ConfigError" /\ fetchCalls = 0

\* the response data was read from a success response by response.json()
JsonRead == Done /\ response.status \in 200..299 /\ data # Undefined

C2_FirstChoice == OptFirst(Get(data, K_choices))
C2_ContentOf   == OptGet(OptGet(C2_FirstChoice, K_message), K_content)

\* choices missing or empty, first choice without message, content missing,
\* null, empty or whitespace-only
C2_NoUsableContent ==
    \/ IsNullish(C2_ContentOf)
    \/ IsStr(C2_ContentOf) /\ Trim(Payload(C2_ContentOf)) = <<>>

\* C2: when the response carries no usable content (choices missing or empty,
\* first choice without message, content missing, null, empty or
\* whitespace-only) callAI returns the text "{}" and does not fail; otherwise
\* it returns the trimmed text content of the first choice.
C2_EmptyContentGivesEmptyJSON ==
    (JsonRead /\ IsObj(data)) =>
        IF C2_NoUsableContent THEN outcome = Returned(EmptyJSONText)
        ELSE IsStr(C2_ContentOf) => outcome = Returned(Trim(Payload(C2_ContentOf)))

\* the provider answered with a non-success status
NonSuccess == response # NoResponse /\ response.status \notin 200..299

\* C3 as stated: whenever the provider answers with a non-success status,
\* callAI fails with a provider error that carries the status code and the
\* response body text.
C3_NonSuccessAlwaysProviderError ==
    (Done /\ NonSuccess) =>
        /\ outcome.kind = "ProviderError"
        /\ Contains(outcome.text, NatToText(response.status))

\* C3 as amended: after a non-success status callAI returns no value; once
\* the body text has been read it fails with a provider error that carries
\* the status code and that body text; when reading the body is aborted or
\* fails, it fails with that abort or transport error instead.
C3_NonSuccessFails ==
    (Done /\ NonSuccess) =>
        /\ outcome.kind \in {"ProviderError", "AbortError", "TransportError"}
        /\ IF data = Undefined
           THEN outcome.kind \in {"AbortError", "TransportError"}
           ELSE /\ outcome.kind = "ProviderError"
                /\ IsStr(data)
                /\ Contains(outcome.text, NatToText(response.status))
                /\ EndsWith(outcome.text, <<" ">> \o Payload(data))

C3_Witness ==
    /\ Done
    /\ response.status = 500
    /\ data = Str(<<"b", "a", "d">>)
    /\ outcome.kind = "ProviderError"

\* C4 as stated: every call issues exactly one outbound request, whatever
\* its outcome.
C4_EveryCallOneRequest == Done => fetchCalls = 1

\* C4 as amended: a call that finds the credential issues exactly one
\* request, whatever its outcome (value, provider error, transport error,
\* abort); a call that fails with the configuration error issues none; no
\* call issues two and a failed request is never retried.
C4_OneRequestUnlessConfigError ==
    /\ fetchCalls <= 1
    /\ pc \in {"fetch", "text", "json"} => fetchCalls = 1
    /\ Done => fetchCalls = (IF outcome.kind = "ConfigError" THEN 0 ELSE 1)

C4_Witness ==
    Done /\ outcome.kind = "TransportError" /\ response = NoResponse /\ fetchCalls = 1

\* C5: when a supplied signal fires at any point of the call (request in
\* flight, after the status check, while the body is read), the call ends
\* with an abort error and returns no value.
C5_AbortDuringCallGivesAbortError ==
    (Done /\ abortedAt \in {"fetch", "text", "json"}) => outcome.kind = "AbortError"

C5_Witness ==
    Done /\ abortedAt = "json" /\ response.status = 200 /\ outcome.kind = "AbortError"

---------------------------------------------------------------------------
(* JSON.parse, over the characters of the model's texts: objects, arrays,   *)
(* strings without escapes, unsigned integers, true, false, null and        *)
(* white space.  A parse step yields [ok, val, pos]: pos is the index of    *)
(* the first character after the value.                                     *)

Digits == {"0", "1", "2", "3", "4", "5", "6", "7", "8", "9"}

DigitValue(c) == CHOOSE d \in 0..9 : Digit(d) = c

ParseFail == [ok |-> FALSE, val |-> Undefined, pos |-> 0]
ParseOk(v, p) == [ok |-> TRUE, val |-> v, pos |-> p]

\* the character at index i, "" past the end
At(s, i) == IF i >= 1 /\ i <= Len(s) THEN s[i] ELSE ""

RECURSIVE SkipWs(_, _)
SkipWs(s, i) == IF At(s, i) \in WhiteSpace THEN SkipWs(s, i + 1) ELSE i

\* s holds the word w at index i
HasWord(s, i, w) == i + Len(w) - 1 <= Len(s) /\ SubSeq(s, i, i + Len(w) - 1) = w

\* the characters of a string whose opening quote precedes index i
RECURSIVE ScanString(_, _, _)
ScanString(s, i, acc) ==
    LET c == At(s, i)
    IN  IF c = "\"" THEN ParseOk(Str(acc), i + 1)
        ELSE IF c = "" \/ c = "\\" \/ c \in {"\n", "\t"} THEN ParseFail
        ELSE ScanString(s, i + 1, Append(acc, c))

\* the digits of a number from index i on
RECURSIVE ScanDigits(_, _, _)
ScanDigits(s, i, acc) ==
    IF At(s, i) \in Digits
    THEN ScanDigits(s, i + 1, 10 * acc + DigitValue(At(s, i)))
    ELSE ParseOk(Num(acc), i)

ParseNumber(s, i) ==
    IF At(s, i) = "0" /\ At(s, i + 1) \in Digits THEN ParseFail
    ELSE ScanDigits(s, i, 0)

RECURSIVE ParseValue(_, _)
RECURSIVE ParseElements(_, _, _)
RECURSIVE ParseMembers(_, _, _)

\* a value that starts at index i (white space already skipped)
ParseValue(s, i) ==
    LET c == At(s, i)
    IN  IF c = "{" THEN
            IF At(s, SkipWs(s, i + 1)) = "}"
            THEN ParseOk(EmptyObj, SkipWs(s, i + 1) + 1)
            ELSE ParseMembers(s, i + 1, <<>>)
        ELSE IF c = "[" THEN
            IF At(s, SkipWs(s, i + 1)) = "]"
            THEN ParseOk(Arr(<<>>), SkipWs(s, i + 1) + 1)
            ELSE ParseElements(s, i + 1, <<>>)
        ELSE IF c = "\"" THEN ScanString(s, i + 1, <<>>)
        ELSE IF c \in Digits THEN ParseNumber(s, i)
        ELSE IF HasWord(s, i, <<"t", "r", "u", "e">>) THEN ParseOk(Bool(TRUE), i + 4)
        ELSE IF HasWord(s, i, <<"f", "a", "l", "s", "e">>) THEN ParseOk(Bool(FALSE), i + 5)
        ELSE IF HasWord(s, i, <<"n", "u", "l", "l">>) THEN ParseOk(Null, i + 4)
        ELSE ParseFail

\* the elements of an array from index i on, acc holding those before
ParseElements(s, i, acc) ==
    LET e == ParseValue(s, SkipWs(s, i))
        j == SkipWs(s, e.pos)
    IN  IF ~e.ok THEN ParseFail
        ELSE IF At(s, j) = "," THEN ParseElements(s, j + 1, Append(acc, e.val))
        ELSE IF At(s, j) = "]" THEN ParseOk(Arr(Append(acc, e.val)), j + 1)
        ELSE ParseFail

\* the members of an object from index i on, acc holding those before; a
\* repeated name keeps its last value
ParseMembers(s, i, acc) ==
    LET k == SkipWs(s, i)
        name == IF At(s, k) = "\"" THEN ScanString(s, k + 1, <<>>) ELSE ParseFail
        colon == SkipWs(s, name.pos)
        v == ParseValue(s, SkipWs(s, colon + 1))
        j == SkipWs(s, v.pos)
        members == (Payload(name.val) :> v.val) @@ acc
    IN  IF ~name.ok THEN ParseFail
        ELSE IF At(s, colon) # ":" THEN ParseFail
        ELSE IF ~v.ok THEN ParseFail
        ELSE IF At(s, j) = "," THEN ParseMembers(s, j + 1, members)
        ELSE IF At(s, j) = "}" THEN ParseOk(Obj(members), j + 1)
        ELSE ParseFail

\* JSON.parse(s): ok is FALSE when it throws a SyntaxError
JSONParse(s) ==
    LET r == ParseValue(s, SkipWs(s, 1))
    IN  IF r.ok /\ SkipWs(s, r.pos) = Len(s) + 1
        THEN [ok |-> TRUE, val |-> r.val]
        ELSE [ok |-> FALSE, val |-> Undefined]

---------------------------------------------------------------------------
(* coerceToJSONObject *)

Openers == {"[", "{"}
Closers == {"]", "}"}

\* JSON.parse(s) outside any try
TryParse_NoCatch(s) ==
    LET r == JSONParse(s) IN [threw |-> ~r.ok, ok |-> r.ok, val |-> r.val]
\* try { return JSON.parse(s); } catch {}
TryParse(s) ==
    LET r == JSONParse(s) IN [threw |-> FALSE, ok |-> r.ok, val |-> r.val]

\* the match with a lazy star: it stops at the first closer
BracketMatch_Lazy(raw) ==
    LET opens  == {i \in 1..Len(raw) : raw[i] \in Openers}
        first  == CHOOSE i \in opens : \A k \in opens : i <= k
        closes == {j \in 1..Len(raw) : raw[j] \in Closers /\ j > first}
        stop   == CHOOSE j \in closes : \A k \in closes : j <= k
    IN  IF opens = {} \/ closes = {} THEN [found |-> FALSE, text |-> <<>>]
        ELSE [found |-> TRUE, text |-> SubSeq(raw, first, stop)]
\* raw.match(/([\[{][\s\S]*[\]}])/): the leftmost match, the star greedy
BracketMatch(raw) ==
    LET opens  == {i \in 1..Len(raw) : raw[i] \in Openers}
        first  == CHOOSE i \in opens : \A k \in opens : i <= k
        closes == {j \in 1..Len(raw) : raw[j] \in Closers /\ j > first}
        last   == CHOOSE j \in closes : \A k \in closes : j >= k
    IN  IF opens = {} \/ closes = {} THEN [found |-> FALSE, text |-> <<>>]
        ELSE [found |-> TRUE, text |-> SubSeq(raw, first, last)]

\* { message: raw }
MessageFallback(raw) == Obj(K_message :> Str(raw))

\* coerceToJSONObject(text): [threw, val]
coerceToJSONObject(text) ==
    LET raw    == Trim(text)
        strict == TryParse(raw)
        m      == BracketMatch(raw)
        inner  == TryParse(m.text)
    IN  IF strict.threw THEN [threw |-> TRUE, val |-> Undefined]
        ELSE IF strict.ok THEN [threw |-> FALSE, val |-> strict.val]
        ELSE IF m.found /\ inner.threw THEN [threw |-> TRUE, val |-> Undefined]
        ELSE IF m.found /\ inner.ok THEN [threw |-> FALSE, val |-> inner.val]
        ELSE [threw |-> FALSE, val |-> MessageFallback(raw)]

\* the characters the enumerated texts are made of
Alphabet == {"{", "}", "[", "]", "\"", ",", "1", "a", " "}

K_overview == <<"o", "v", "e", "r", "v", "i", "e", "w">>

\* texts the provider may answer with, beyond the enumerated ones
SampleTexts ==
    {<<"{", "\"", "o", "v", "e", "r", "v", "i", "e", "w", "\"", ":", "\"", "x", "\"", "}">>,
     <<"H", "e", "r", "e", " ", "y", "o", "u", " ", "g", "o", ":", " ", "{", "\"", "o", "v", "e", "r", "v", "i", "e", "w", "\"", ":", "\"", "x", "\"", "}", " ", "t", "h", "a", "n", "k", "s", "!">>,
     <<"n", "o", "t", " ", "j", "s", "o", "n", " ", "a", "t", " ", "a", "l", "l">>,
     <<"n", "u", "l", "l">>,
     <<"t", "r", "u", "e">>,
     <<"x", " ", "{", "\"", "a", "\"", ":", "1", "}", " ", "]">>,
     <<"{", "\"", "a", "\"", ":", "1", ",", "\"", "a", "\"", ":", "[", "1", ",", " ", "1", "0", "]", "}">>,
     <<"{", "\"", "m", "e", "s", "s", "a", "g", "e", "\"", ":", "\"", "\"", "}">>,
     <<"0", "1">>,
     <<"[", " ", "{", "\"", "a", "\"", " ", ":", " ", "f", "a", "l", "s", "e", "}", " ", ",", " ", "\"", "b", "\"", " ", "]", " ", "o", "k">>}

Texts == UNION {[1..n -> Alphabet] : n \in 0..MaxLen} \cup SampleTexts

InitExtract ==
    /\ pc = "idle"
    /\ input \in {Str(t) : t \in Texts}
    /\ env = Undefined
    /\ signal = "none"
    /\ abortedAt = "never"
    /\ fetchCalls = 0
    /\ response = NoResponse
    /\ data = Undefined
    /\ outcome = NoOutcome
    /\ result = Undefined
    /\ again = Undefined

\* one call of coerceToJSONObject(input)
Coerce ==
    /\ pc = "idle"
    /\ LET r == coerceToJSONObject(Payload(input))
       IN  /\ outcome' = IF r.threw THEN Thrown("SyntaxError", <<>>)
                         ELSE Returned(<<>>)
           /\ result' = r.val
    /\ pc' = "done"
    /\ UNCHANGED <<env, signal, abortedAt, fetchCalls, response, data, input, again>>

NextExtract == Coerce

SpecExtract == InitExtract /\ [][NextExtract]_vars

---------------------------------------------------------------------------
(* normalizeToSchema *)

K_summary          == <<"s", "u", "m", "m", "a", "r", "y">>
K_diagnostic_steps == <<"d", "i", "a", "g", "n", "o", "s", "t", "i", "c", "_", "s", "t", "e", "p", "s">>
K_repair_steps     == <<"r", "e", "p", "a", "i", "r", "_", "s", "t", "e", "p", "s">>
K_tools_needed     == <<"t", "o", "o", "l", "s", "_", "n", "e", "e", "d", "e", "d">>
K_time_estimate    == <<"t", "i", "m", "e", "_", "e", "s", "t", "i", "m", "a", "t", "e">>
K_cost_estimate    == <<"c", "o", "s", "t", "_", "e", "s", "t", "i", "m", "a", "t", "e">>
K_parts            == <<"p", "a", "r", "t", "s">>
K_videos           == <<"v", "i", "d", "e", "o", "s">>
K_toString         == <<"t", "o", "S", "t", "r", "i", "n", "g">>

NoOverviewText == <<"N", "o", " ", "o", "v", "e", "r", "v", "i", "e", "w", " ", "a", "v", "a", "i", "l", "a", "b", "l", "e">>
NotAvailable   == <<"N", "/", "A">>

Converted(t) == [threw |-> FALSE, text |-> t]
CannotConvert == [threw |-> TRUE, text |-> <<>>]

\* String(v), the callback of map: [threw, text].  An object converts
\* through its toString; one decoded from JSON with a field named toString
\* holds a value that cannot be called there, and the conversion throws a
\* TypeError.  An array converts as join(","), null elements as "".
RECURSIVE ToStringJS(_)
RECURSIVE JoinFrom(_, _)
ToStringJS(v) ==
    CASE Tag(v) = "str"       -> Converted(Payload(v))
      [] Tag(v) = "num"       -> Converted(NatToText(Payload(v)))
      [] Tag(v) = "bool"      -> Converted(IF Payload(v) THEN <<"t", "r", "u", "e">>
                                           ELSE <<"f", "a", "l", "s", "e">>)
      [] Tag(v) = "null"      -> Converted(<<"n", "u", "l", "l">>)
      [] Tag(v) = "undefined" -> Converted(<<"u", "n", "d", "e", "f", "i", "n", "e", "d">>)
      [] Tag(v) = "arr"       -> JoinFrom(Payload(v), 1)
      [] Tag(v) = "obj"       -> IF K_toString \in DOMAIN Payload(v)
                                 THEN CannotConvert
                                 ELSE Converted(<<"[", "o", "b", "j", "e", "c", "t", " ", "O", "b", "j", "e", "c", "t", "]">>)

\* the elements of s from index i on, joined with ","
JoinFrom(s, i) ==
    IF i > Len(s) THEN Converted(<<>>)
    ELSE LET e    == IF IsNullish(s[i]) THEN Converted(<<>>) ELSE ToStringJS(s[i])
             rest == JoinFrom(s, i + 1)
         IN  IF e.threw \/ rest.threw THEN CannotConvert
             ELSE IF i = Len(s) THEN e
             ELSE Converted(e.text \o <<",">> \o rest.text)

\* JSON.stringify handed to map in place of String
StringOf_Quoted(v) ==
    IF IsStr(v) THEN Converted(<<"\"">> \o Payload(v) \o <<"\"">>) ELSE ToStringJS(v)
\* the String handed to map
StringOf(v) == ToStringJS(v)

\* Array.isArray(x) ? x.map(String) : []  as [threw, val]
StringList(x) ==
    IF ~IsArr(x) THEN [threw |-> FALSE, val |-> Arr(<<>>)]
    ELSE LET s == Payload(x)
         IN  IF \E i \in 1..Len(s) : StringOf(s[i]).threw
             THEN [threw |-> TRUE, val |-> Undefined]
             ELSE [threw |-> FALSE,
                   val |-> Arr([i \in 1..Len(s) |-> Str(StringOf(s[i]).text)])]

\* typeof x === "string" ? x : fallback
TextOr(x, fallback) == IF IsStr(x) THEN x ELSE fallback

\* the overview field of the result
Overview(obj) ==
    TextOr(OptGet(obj, K_overview),
       TextOr(OptGet(obj, K_summary),
          TextOr(OptGet(obj, K_message), Str(NoOverviewText))))

\* normalizeToSchema(obj): [threw, val]
normalizeToSchema(obj) ==
    LET diagnostic == StringList(OptGet(obj, K_diagnostic_steps))
        repair     == StringList(OptGet(obj, K_repair_steps))
        tools      == StringList(OptGet(obj, K_tools_needed))
    IN  IF diagnostic.threw \/ repair.threw \/ tools.threw
        THEN [threw |-> TRUE, val |-> Undefined]
        ELSE [threw |-> FALSE,
              val |-> Obj(   (K_overview :> Overview(obj))
                          @@ (K_diagnostic_steps :> diagnostic.val)
                          @@ (K_repair_steps :> repair.val)
                          @@ (K_tools_needed :> tools.val)
                          @@ (K_time_estimate :>
                                 TextOr(OptGet(obj, K_time_estimate), Str(NotAvailable)))
                          @@ (K_cost_estimate :>
                                 TextOr(OptGet(obj, K_cost_estimate), Str(NotAvailable)))
                          @@ (K_parts :> Arr(<<>>))
                          @@ (K_videos :> Arr(<<>>)))]

SchemaFields ==
    {K_overview, K_diagnostic_steps, K_repair_steps, K_tools_needed,
     K_time_estimate, K_cost_estimate, K_parts, K_videos}

\* the field names of the enumerated input objects
InputFields == SchemaFields \cup {K_summary, K_message}

\* the field values of the enumerated input objects
InputValues ==
    {Null, Str(<<>>), Str(<<"x">>),
     Arr(<<Str(<<"x">>), Num(12), Null>>),
     Arr(<<Bool(TRUE), EmptyObj, Arr(<<Num(1), Null, Arr(<<>>)>>)>>),
     Arr(<<Obj(K_toString :> Num(1))>>)}

\* inputs with at most MaxFields fields
SmallObjects ==
    {Obj(f) : f \in UNION {[names -> InputValues] :
                  names \in {n \in SUBSET InputFields : Cardinality(n) <= MaxFields}}}

TextValues == {Str(<<>>), Str(<<"x">>)}
TextLists  == {Arr(<<>>), Arr(<<Str(<<"x">>)>>), Arr(<<Str(<<"a", "b">>), Str(<<>>)>>)}

\* inputs that match the schema: the eight fields, each of its type
SchemaObjects ==
    {Obj(   (K_overview :> o) @@ (K_diagnostic_steps :> d) @@ (K_repair_steps :> r)
         @@ (K_tools_needed :> t) @@ (K_time_estimate :> e) @@ (K_cost_estimate :> e)
         @@ (K_parts :> p) @@ (K_videos :> p)) :
        o \in TextValues, d \in TextLists, r \in TextLists, t \in TextLists,
        e \in TextValues, p \in TextLists}

\* inputs that are no object
OtherValues ==
    {Undefined, Null, Bool(FALSE), Num(7), Str(<<"x">>), Arr(<<>>),
     Arr(<<Obj(K_overview :> Str(<<"x">>))>>)}

NormalizeInputs == SmallObjects \cup SchemaObjects \cup OtherValues

InitNormalize ==
    /\ pc = "idle"
    /\ input \in NormalizeInputs
    /\ env = Undefined
    /\ signal = "none"
    /\ abortedAt = "never"
    /\ fetchCalls = 0
    /\ response = NoResponse
    /\ data = Undefined
    /\ outcome = NoOutcome
    /\ result = Undefined
    /\ again = Undefined

\* one call of normalizeToSchema(input)
Normalize ==
    /\ pc = "idle"
    /\ LET r == normalizeToSchema(input)
       IN  /\ outcome' = IF r.threw THEN Thrown("TypeError", <<>>) ELSE Returned(<<>>)
           /\ result' = r.val
    /\ pc' = "normalized"
    /\ UNCHANGED <<env, signal, abortedAt, fetchCalls, response, data, input, again>>

\* normalizeToSchema called on the record the first call returned
NormalizeAgain ==
    /\ pc = "normalized"
    /\ outcome.kind = "value"
    /\ LET r == normalizeToSchema(result)
       IN  /\ outcome' = IF r.threw THEN Thrown("TypeError", <<>>) ELSE Returned(<<>>)
           /\ again' = r.val
    /\ pc' = "renormalized"
    /\ UNCHANGED <<env, signal, abortedAt, fetchCalls, response, data, input, result>>

NextNormalize ==
    \/ Normalize
    \/ NormalizeAgain

SpecNormalize == InitNormalize /\ [][NextNormalize]_vars

---------------------------------------------------------------------------
(* Claims about coerceToJSONObject, checked under SpecExtract *)

\* v has at least one field of its own that can be read
HasField(v) ==
    \/ IsObj(v) /\ DOMAIN Payload(v) # {}
    \/ IsArr(v) /\ Len(Payload(v)) >= 1
    \/ IsStr(v) /\ Len(Payload(v)) >= 1

RawInput == Trim(Payload(input))

\* C6 as stated: for every input text coerceToJSONObject never raises and
\* returns a value with at least one accessible field.
C6_AlwaysAField ==
    Done => outcome.kind = "value" /\ HasField(result)

\* the result is what JSON.parse gives for the trimmed text or for a part of
\* it that runs from a bracket to a bracket
C6_ParsedFromInput ==
    \/ JSONParse(RawInput) = [ok |-> TRUE, val |-> result]
    \/ \E i \in 1..Len(RawInput) : \E j \in (i + 1)..Len(RawInput) :
          /\ RawInput[i] \in Openers
          /\ RawInput[j] \in Closers
          /\ JSONParse(SubSeq(RawInput, i, j)) = [ok |-> TRUE, val |-> result]

\* C6 as amended: for every input text coerceToJSONObject never raises; it
\* returns either the {message: trimmed text} fallback, which has one
\* accessible field, or a value parsed from the text, and only a parsed value
\* ({}, [], null, a boolean, a number, "") can be without a field.
C6_NeverRaisesFieldUnlessParsed ==
    Done =>
        /\ outcome.kind = "value"
        /\ \/ result = Obj(K_message :> Str(RawInput))
           \/ C6_ParsedFromInput
        /\ ~HasField(result) => C6_ParsedFromInput

C6_Witness ==
    Done /\ input = Str(<<" ", "{", "}">>) /\ result = EmptyObj /\ ~HasField(result)

\* the closer that corresponds to an opener
C10_CloserOf(c) == IF c = "{" THEN "}" ELSE "]"

\* the substring the claim describes: from the first opener that has a
\* corresponding closer after it to the last such closer
C10_ClaimedMatch ==
    LET raw    == RawInput
        opens  == {i \in 1..Len(raw) :
                      /\ raw[i] \in Openers
                      /\ \E j \in (i + 1)..Len(raw) : raw[j] = C10_CloserOf(raw[i])}
        first  == CHOOSE i \in opens : \A k \in opens : i <= k
        closes == {j \in (first + 1)..Len(raw) : raw[j] = C10_CloserOf(raw[first])}
        last   == CHOOSE j \in closes : \A k \in closes : j >= k
    IN  IF opens = {} THEN [found |-> FALSE, text |-> <<>>]
        ELSE [found |-> TRUE, text |-> SubSeq(raw, first, last)]

\* C10 as stated: when the strict parse of the trimmed text fails, the
\* substring from the first opener to the last closer of the same kind is
\* parsed and its value returned; {message: trimmed text} is returned only
\* when that parse fails too.
C10_CorrespondingCloser ==
    (Done /\ ~JSONParse(RawInput).ok) =>
        LET m == C10_ClaimedMatch
        IN  IF m.found /\ JSONParse(m.text).ok
            THEN result = JSONParse(m.text).val
            ELSE result = Obj(K_message :> Str(RawInput))

\* the pairs <<i, j>>: i the first opener of the trimmed text, j its last
\* closer of either kind, j after i
C10_Span ==
    {p \in (1..Len(RawInput)) \X (1..Len(RawInput)) :
        /\ p[1] < p[2]
        /\ RawInput[p[1]] \in Openers
        /\ \A k \in 1..(p[1] - 1) : RawInput[k] \notin Openers
        /\ RawInput[p[2]] \in Closers
        /\ \A k \in (p[2] + 1)..Len(RawInput) : RawInput[k] \notin Closers}

\* C10 as amended: when the strict parse of the trimmed text fails, the
\* substring from the first `{` or `[` to the last `}` or `]` of the text,
\* whether or not that closer is of the opener's kind, is parsed and its
\* value returned; {message: trimmed text} is returned when there is no such
\* substring or that parse fails too.
C10_FirstOpenerToLastCloser ==
    Done =>
        IF JSONParse(RawInput).ok THEN result = JSONParse(RawInput).val
        ELSE IF \E p \in C10_Span : JSONParse(SubSeq(RawInput, p[1], p[2])).ok
             THEN \A p \in C10_Span : result = JSONParse(SubSeq(RawInput, p[1], p[2])).val
             ELSE result = Obj(K_message :> Str(RawInput))

C10_Witness ==
    /\ Done
    /\ input = Str(<<"a", "[", "1", "]">>)
    /\ ~JSONParse(RawInput).ok
    /\ result = Arr(<<Num(1)>>)

---------------------------------------------------------------------------
(* Claims about normalizeToSchema, checked under SpecNormalize *)

IsText(v)     == IsStr(v)
IsTextList(v) == IsArr(v) /\ \A i \in 1..Len(Payload(v)) : IsStr(Payload(v)[i])

\* a record of the fixed schema whose parts and videos are empty
C7_WellFormed(v) ==
    /\ IsObj(v)
    /\ DOMAIN Payload(v) = SchemaFields
    /\ IsText(Payload(v)[K_overview])
    /\ IsText(Payload(v)[K_time_estimate])
    /\ IsText(Payload(v)[K_cost_estimate])
    /\ IsTextList(Payload(v)[K_diagnostic_steps])
    /\ IsTextList(Payload(v)[K_repair_steps])
    /\ IsTextList(Payload(v)[K_tools_needed])
    /\ Payload(v)[K_parts] = Arr(<<>>)
    /\ Payload(v)[K_videos] = Arr(<<>>)

\* C7: for every decoded value normalizeToSchema never fails and returns a
\* record with the eight fields of the schema, each of its type, parts and
\* videos empty.
C7_TotalAndWellFormed ==
    pc = "normalized" => outcome.kind = "value" /\ C7_WellFormed(result)

\* C8: the overview of every record normalizeToSchema returns is non-empty
\* text.
C8_OverviewNonEmpty ==
    (pc = "normalized" /\ outcome.kind = "value") =>
        /\ IsText(Payload(result)[K_overview])
        /\ Len(Payload(Payload(result)[K_overview])) >= 1

\* x is a well-formed input that matches the schema
C9_MatchesSchema(x) ==
    /\ IsObj(x)
    /\ DOMAIN Payload(x) = SchemaFields
    /\ IsText(Payload(x)[K_overview])
    /\ IsText(Payload(x)[K_time_estimate])
    /\ IsText(Payload(x)[K_cost_estimate])
    /\ \A k \in {K_diagnostic_steps, K_repair_steps, K_tools_needed, K_parts, K_videos} :
          IsTextList(Payload(x)[k])

\* C9: for every input x that matches the schema,
\* normalizeToSchema(normalizeToSchema(x)) equals normalizeToSchema(x) field
\* by field, parts and videos being empty in both.
C9_Idempotent ==
    (C9_MatchesSchema(input) /\ pc # "idle") =>
        /\ outcome.kind = "value"
        /\ pc = "renormalized" =>
              /\ \A k \in SchemaFields : Payload(again)[k] = Payload(result)[k]
              /\ Payload(again)[K_parts] = Arr(<<>>)
              /\ Payload(result)[K_videos] = Arr(<<>>)

C9_Witness ==
    /\ pc = "renormalized"
    /\ C9_MatchesSchema(input)
    /\ Payload(input)[K_parts] # Arr(<<>>)
    /\ Payload(input)[K_diagnostic_steps] = Arr(<<Str(<<"a", "b">>), Str(<<>>)>>)
    /\ again = result

====
